---- MODULE Spec2Model ----
(***************************************************************************)
(* TXToo worker: the ephemeral record store behind POST /api/submit and    *)
(* GET /api/fetch/{id} (workers/src/index.ts), over the D1 table `texts`   *)
(* (workers/schema.sql).                                                   *)
(*                                                                         *)
(* Every request is one run of the worker's fetch handler.  A handler runs *)
(* without interruption between two awaits of a D1 statement; a statement  *)
(* is executed atomically by the database, and the handler's continuation  *)
(* up to its next await (or its response) is taken together with it.       *)
(* Between two such steps other handlers run and the wall clock advances.  *)
(* The database is taken to be available: the only statement that throws   *)
(* is an INSERT that violates the primary key.                             *)
(*                                                                         *)
(* TXToo client: the envelope codec encryptText / decryptText              *)
(* (src/utils/crypto.ts) over base64url, UTF-8, PBKDF2 and AES-GCM, and    *)
(* the worker's generateId.  Strings are sequences of UTF-16 code units    *)
(* and buffers sequences of bytes, so that encodings are computed.         *)
(*                                                                         *)
(* The pages Home (src/Home.tsx) and ViewNote (src/ViewNote.tsx): Home     *)
(* encrypts a note, posts the envelope and shows the share URL; ViewNote   *)
(* splits the idKey of the URL it is opened with, fetches the record and   *)
(* decrypts it.  A request of a page reaches the worker in the step that   *)
(* sends it; its response is read in a later step of the page.             *)
(***************************************************************************)
EXTENDS Integers, Sequences, FiniteSets, TLC

(* ------------------------------ bounds --------------------------------- *)
\* number of requests the worker receives in one behaviour: of Spec, where
\* they contend for one id, and of SpecWide, where ids and bodies vary
NumReqs == 3
NumWideReqs == 2
\* the last second the wall clock reaches
MaxNow == 2
\* the test scenario: its number of requests and its clock resolution
NumTestReqs == 2
TestTickMs == 500
\* the calls of encryptText in one behaviour: of SpecCrypto, of SpecTwice,
\* and of SpecTamper, where every bit of the result is flipped
NumCryptoEncrypts == 1
NumEncrypts == 2
NumTamperEncrypts == 1
\* the longest id asked of generateId, short of the quota of the random source
MaxIdLength == 16
\* the submits that follow the calls of generateId in SpecId
NumIdReqs == 1
\* the requests of SpecOvertake, where fetches and submits of one id overtake
\* each other between their statements
NumOvertakeReqs == 5
\* the requests of SpecShare, which Home, ViewNote and other clients send
NumShareReqs == 2

(* ------------------------- program constants --------------------------- *)
\* Date.now() / 1000
MsPerSec == 1000
\* HTTP status codes of the handler's responses
OK == 200
BadRequest == 400
NotFound == 404
Gone == 410
ServerError == 500
\* the test 'returns 410 for expired data' waits setTimeout(resolve, 1500)
TestDelayMs == 1500

\* encryptText draws new Uint8Array(16) for the salt, new Uint8Array(12) for the iv
SaltLength == 16
IvLength == 12
\* AES-GCM appends its authentication tag of 128 bits to the ciphertext
TagLength == 16
\* a code unit of a string has 16 bits
CharBits == 16
\* generateId(length: number = 12)
DefaultIdLength == 12
\* crypto.getRandomValues throws QuotaExceededError above 65536 bytes
QuotaBytes == 65536
\* const length = 16 of generateRandomPassword
PasswordLength == 16
\* the shortest time to live the settings of Home offer: 3 minutes
ShortestTtl == 180
\* the code units of '#', '/', '?' and '~'
Hash == 35
Slash == 47
Question == 63
Tilde == 126

(* --------------------------- strings and bytes ------------------------- *)
\* A string is the sequence of its UTF-16 code units (charCodeAt), a
\* Uint8Array the sequence of its bytes.  A call that can throw returns a
\* record whose field threw tells whether it did.

\* the character of a 6-bit value in the alphabet of btoa: A-Z a-z 0-9 + /
Base64Char(v) ==
    IF v < 26 THEN 65 + v
    ELSE IF v < 52 THEN 97 + (v - 26)
    ELSE IF v < 62 THEN 48 + (v - 52)
    ELSE IF v = 62 THEN 43 ELSE 47

\* the 6-bit value of a character of that alphabet, -1 for any other character
Base64Value(c) ==
    IF c >= 65 /\ c <= 90 THEN c - 65
    ELSE IF c >= 97 /\ c <= 122 THEN c - 71
    ELSE IF c >= 48 /\ c <= 57 THEN c + 4
    ELSE IF c = 43 THEN 62
    ELSE IF c = 47 THEN 63 ELSE -1

\* btoa(binary): groups of three bytes as four characters, '=' (61) padding
btoa(binary) ==
    LET n == Len(binary)
        At(j) == IF j <= n THEN binary[j] ELSE 0
        Char(i) ==
            LET g == (i - 1) \div 4
                k == (i - 1) % 4
                b1 == At(3 * g + 1)
                b2 == At(3 * g + 2)
                b3 == At(3 * g + 3)
            IN  IF k = 0 THEN Base64Char(b1 \div 4)
                ELSE IF k = 1 THEN Base64Char((b1 % 4) * 16 + b2 \div 16)
                ELSE IF k = 2
                     THEN IF 3 * g + 2 > n THEN 61
                          ELSE Base64Char((b2 % 16) * 4 + b3 \div 64)
                ELSE IF 3 * g + 3 > n THEN 61 ELSE Base64Char(b3 % 64)
    IN  [i \in 1..(4 * ((n + 2) \div 3)) |-> Char(i)]

\* ASCII whitespace, which atob removes: tab, LF, FF, CR, space
IsAsciiWhitespace(c) == c \in {9, 10, 12, 13, 32}

\* atob(str), the forgiving base64 decoding: whitespace is removed, one or
\* two '=' are dropped from a length that is a multiple of four, a length
\* of 4k + 1 or a character outside the alphabet throws, and the bits left
\* over after the last whole byte are discarded
atob(str) ==
    LET data == SelectSeq(str, LAMBDA c : ~IsAsciiWhitespace(c))
        n == Len(data)
        stripped ==
            IF n > 0 /\ n % 4 = 0
            THEN IF data[n] = 61 /\ data[n - 1] = 61 THEN SubSeq(data, 1, n - 2)
                 ELSE IF data[n] = 61 THEN SubSeq(data, 1, n - 1)
                 ELSE data
            ELSE data
        m == Len(stripped)
        Val(i) == IF i <= m THEN Base64Value(stripped[i]) ELSE 0
        Byte(j) ==
            LET g == (j - 1) \div 3
                k == (j - 1) % 3
            IN  IF k = 0 THEN Val(4 * g + 1) * 4 + Val(4 * g + 2) \div 16
                ELSE IF k = 1 THEN (Val(4 * g + 2) % 16) * 16 + Val(4 * g + 3) \div 4
                ELSE (Val(4 * g + 3) % 4) * 64 + Val(4 * g + 4)
    IN  IF m % 4 = 1 THEN [threw |-> TRUE, binary |-> <<>>]
        ELSE IF \E i \in 1..m : Base64Value(stripped[i]) = -1
        THEN [threw |-> TRUE, binary |-> <<>>]
        ELSE [threw |-> FALSE, binary |-> [j \in 1..((m * 6) \div 8) |-> Byte(j)]]

\* str.replace(/from/g, to) for single characters
ReplaceAll(str, from, to) ==
    [i \in 1..Len(str) |-> IF str[i] = from THEN to ELSE str[i]]

\* str.replace(/c/g, '')
RemoveAll(str, c) == SelectSeq(str, LAMBDA x : x # c)

\* an encoding that keeps the '=' padding of btoa
base64urlEncodePadded(buffer) ==
    ReplaceAll(ReplaceAll(btoa(buffer), 43, 45), 47, 95)

\* base64urlEncode: btoa, '+' to '-', '/' to '_', '=' removed
base64urlEncode(buffer) ==
    RemoveAll(ReplaceAll(ReplaceAll(btoa(buffer), 43, 45), 47, 95), 61)

\* while (str.length % 4) str += '='
PadToFour(str) == str \o [i \in 1..((4 - (Len(str) % 4)) % 4) |-> 61]

\* base64urlDecode: '-' to '+', '_' to '/', padded to a multiple of four, atob
base64urlDecode(str) ==
    LET r == atob(PadToFour(ReplaceAll(ReplaceAll(str, 45, 43), 95, 47)))
    IN  [threw |-> r.threw, bytes |-> r.binary]

\* UTF-16 surrogates: D800..DBFF lead, DC00..DFFF trail
IsLeadSurrogate(u) == u >= 55296 /\ u <= 56319
IsTrailSurrogate(u) == u >= 56320 /\ u <= 57343

\* the UTF-8 bytes of a scalar value
Utf8Bytes(cp) ==
    IF cp < 128 THEN <<cp>>
    ELSE IF cp < 2048 THEN <<192 + cp \div 64, 128 + (cp % 64)>>
    ELSE IF cp < 65536
    THEN <<224 + cp \div 4096, 128 + ((cp \div 64) % 64), 128 + (cp % 64)>>
    ELSE <<240 + cp \div 262144, 128 + ((cp \div 4096) % 64),
           128 + ((cp \div 64) % 64), 128 + (cp % 64)>>

\* the UTF-16 code units of a scalar value
Utf16Units(cp) ==
    IF cp < 65536 THEN <<cp>>
    ELSE <<55296 + (cp - 65536) \div 1024, 56320 + ((cp - 65536) % 1024)>>

RECURSIVE Utf8From(_, _)
\* the encoding of str from code unit i on: a surrogate pair is one scalar
\* value, a lone surrogate is encoded as U+FFFD
Utf8From(str, i) ==
    IF i > Len(str) THEN <<>>
    ELSE IF IsLeadSurrogate(str[i])
    THEN IF i < Len(str) /\ IsTrailSurrogate(str[i + 1])
         THEN Utf8Bytes(65536 + (str[i] - 55296) * 1024 + (str[i + 1] - 56320))
                  \o Utf8From(str, i + 2)
         ELSE <<239, 191, 189>> \o Utf8From(str, i + 1)
    ELSE IF IsTrailSurrogate(str[i]) THEN <<239, 191, 189>> \o Utf8From(str, i + 1)
    ELSE Utf8Bytes(str[i]) \o Utf8From(str, i + 1)

\* new TextEncoder().encode(str)
TextEncode(str) == Utf8From(str, 1)

RECURSIVE Utf8To(_, _)
RECURSIVE Utf8Continue(_, _, _, _, _, _)
\* the UTF-8 decoder at byte i: the scalar values decoded from there on, an
\* ill-formed sequence giving U+FFFD (65533)
Utf8To(bytes, i) ==
    IF i > Len(bytes) THEN <<>>
    ELSE LET b == bytes[i]
         IN  IF b < 128 THEN <<b>> \o Utf8To(bytes, i + 1)
             ELSE IF b >= 194 /\ b <= 223
             THEN Utf8Continue(bytes, i + 1, 1, b - 192, 128, 191)
             ELSE IF b >= 224 /\ b <= 239
             THEN Utf8Continue(bytes, i + 1, 2, b - 224,
                               IF b = 224 THEN 160 ELSE 128,
                               IF b = 237 THEN 159 ELSE 191)
             ELSE IF b >= 240 /\ b <= 244
             THEN Utf8Continue(bytes, i + 1, 3, b - 240,
                               IF b = 240 THEN 144 ELSE 128,
                               IF b = 244 THEN 143 ELSE 191)
             ELSE <<65533>> \o Utf8To(bytes, i + 1)

\* the decoder with `needed` continuation bytes to read, the next in lo..hi
Utf8Continue(bytes, i, needed, cp, lo, hi) ==
    IF i > Len(bytes) THEN <<65533>>
    ELSE IF bytes[i] < lo \/ bytes[i] > hi THEN <<65533>> \o Utf8To(bytes, i)
    ELSE IF needed = 1 THEN <<cp * 64 + (bytes[i] - 128)>> \o Utf8To(bytes, i + 1)
    ELSE Utf8Continue(bytes, i + 1, needed - 1, cp * 64 + (bytes[i] - 128), 128, 191)

RECURSIVE Flatten(_)
\* the concatenation of a sequence of sequences
Flatten(seqs) == IF seqs = <<>> THEN <<>> ELSE Head(seqs) \o Flatten(Tail(seqs))

\* new TextDecoder().decode(bytes): UTF-8, not fatal, and with ignoreBOM
\* false a leading U+FEFF (65279) is not part of the result
TextDecode(bytes) ==
    LET scalars == Utf8To(bytes, 1)
        kept == IF scalars # <<>> /\ scalars[1] = 65279 THEN Tail(scalars) ELSE scalars
    IN  Flatten([k \in 1..Len(kept) |-> Utf16Units(kept[k])])

(* ------------------------------ Web Crypto ----------------------------- *)
\* PBKDF2 and AES-GCM are taken as ideal: the derived key stands for its
\* inputs, the keystream is a function of key and iv, and the tag is a
\* digest of key, iv and ciphertext that separates the inputs of this model.

\* a * b modulo the prime 65521, within 32 bits
MulMod(a, b) == ((((a \div 256) * b) % 65521) * 256 + (a % 256) * b) % 65521

RECURSIVE PowMod(_, _)
\* base ^ n modulo 65521
PowMod(base, n) ==
    IF n = 0 THEN 1
    ELSE IF n % 2 = 1 THEN MulMod(base, PowMod(base, n - 1))
    ELSE LET h == PowMod(base, n \div 2) IN MulMod(h, h)

RECURSIVE Poly(_, _, _, _)
\* the sum of (bytes[k] + 1) * base ^ (hi - k) over k in lo..hi, modulo 65521
Poly(bytes, lo, hi, base) ==
    IF lo > hi THEN 0
    ELSE IF lo = hi THEN bytes[lo] + 1
    ELSE LET mid == (lo + hi) \div 2
         IN  (MulMod(Poly(bytes, lo, mid, base), PowMod(base, hi - mid))
                  + Poly(bytes, mid + 1, hi, base)) % 65521

\* a polynomial digest of bytes i.. of a sequence, modulo the prime 65521:
\* acc becomes (acc * base + bytes[k] + 1) % 65521 for k = i, i + 1, ...
Digest(bytes, i, base, acc) ==
    (MulMod(acc, PowMod(base, Len(bytes) - i + 1)) + Poly(bytes, i, Len(bytes), base))
        % 65521

\* a key derivation that leaves the password out
deriveKeyWithoutPassword(password, salt) ==
    [password |-> <<>>, salt |-> salt]

\* deriveKey: PBKDF2 (SHA-256, 100000 iterations) over the UTF-8 bytes of the
\* password and the salt, giving an AES-GCM key of 256 bits
deriveKey(password, salt) ==
    [password |-> TextEncode(password), salt |-> salt]

\* what key and iv contribute to keystream and tag
KeyAndIv(key, iv) ==
    <<Len(key.password)>> \o key.password \o <<Len(key.salt)>> \o key.salt
        \o <<Len(iv)>> \o iv

\* byte i of the keystream of AES-GCM under key and iv
KeyStream(key, iv, i) == (Digest(KeyAndIv(key, iv), 1, 257, 1) + 31 * i) % 256

\* the authentication tag of a ciphertext under key and iv
AuthTag(key, iv, body) ==
    LET h1 == Digest(KeyAndIv(key, iv) \o body, 1, 257, 1)
        h2 == Digest(KeyAndIv(key, iv) \o body, 1, 263, 7)
    IN  [j \in 1..TagLength |->
            IF j = 1 THEN h1 % 256
            ELSE IF j = 2 THEN h1 \div 256
            ELSE IF j = 3 THEN h2 % 256
            ELSE IF j = 4 THEN h2 \div 256
            ELSE (h1 + j * h2) % 256]

\* crypto.subtle.encrypt({name: 'AES-GCM', iv}, key, data): the ciphertext,
\* as long as the data, followed by the tag
AesGcmEncrypt(key, iv, data) ==
    LET body == [i \in 1..Len(data) |-> (data[i] + KeyStream(key, iv, i)) % 256]
    IN  body \o AuthTag(key, iv, body)

\* crypto.subtle.decrypt({name: 'AES-GCM', iv}, key, data): throws when the
\* data is shorter than a tag or the tag is not the one of key, iv and
\* ciphertext; an iv of any length is accepted
AesGcmDecrypt(key, iv, data) ==
    LET n == Len(data) - TagLength
    IN  IF n < 0 THEN [threw |-> TRUE, data |-> <<>>]
        ELSE IF SubSeq(data, n + 1, n + TagLength) # AuthTag(key, iv, SubSeq(data, 1, n))
        THEN [threw |-> TRUE, data |-> <<>>]
        ELSE [threw |-> FALSE,
              data |-> [i \in 1..n |-> (data[i] + 256 - KeyStream(key, iv, i)) % 256]]

(* ------------------------------ crypto.ts ------------------------------ *)
\* combinedBuffer.slice(begin, end), 0-based and end exclusive
Slice(bytes, begin, end) ==
    SubSeq(bytes, begin + 1, IF end < Len(bytes) THEN end ELSE Len(bytes))

\* an encryptText that does not put the salt in front of the ciphertext
encryptTextWithoutSalt(text, password, salt, iv) ==
    [cipherText |-> base64urlEncode(AesGcmEncrypt(deriveKey(password, salt), iv,
                                                  TextEncode(text))),
     iv |-> base64urlEncode(iv)]

\* encryptText(text, password) with the salt and the iv it drew
encryptText(text, password, salt, iv) ==
    LET data == TextEncode(text)
        key == deriveKey(password, salt)
        encryptedData == AesGcmEncrypt(key, iv, data)
        combinedBuffer == salt \o encryptedData
    IN  [cipherText |-> base64urlEncode(combinedBuffer), iv |-> base64urlEncode(iv)]

\* a string as decryptText returns it, and its rejection
Returned(text) == [threw |-> FALSE, text |-> text]
Thrown == [threw |-> TRUE, text |-> <<>>]

\* decryptText(cipherText, ivString, password)
decryptText(cipherText, ivString, password) ==
    LET combinedBuffer == base64urlDecode(cipherText)
        iv == base64urlDecode(ivString)
    IN  IF combinedBuffer.threw THEN Thrown
        ELSE IF iv.threw THEN Thrown
        ELSE LET salt == Slice(combinedBuffer.bytes, 0, SaltLength)
                 encryptedData ==
                     Slice(combinedBuffer.bytes, SaltLength, Len(combinedBuffer.bytes))
                 key == deriveKey(password, salt)
                 decryptedData == AesGcmDecrypt(key, iv.bytes, encryptedData)
             IN  IF decryptedData.threw THEN Thrown
                 ELSE Returned(TextDecode(decryptedData.data))

(* ----------------------------- generateId ------------------------------ *)
\* Math.ceil(length * 3 / 4)
CeilThreeQuarters(length) == (length * 3 + 3) \div 4

\* the bytes crypto.getRandomValues writes into an array of n bytes: any
\* bytes; a draw <<first, step>> stands for first, first + step, ... mod 256
RandomBytes(n, draw) == [i \in 1..n |-> (draw[1] + draw[2] * (i - 1)) % 256]

\* str.substring(0, length)
Substring(str, length) == SubSeq(str, 1, IF length < Len(str) THEN length ELSE Len(str))

\* a generateId that draws floor(length * 3 / 4) bytes
generateIdFloor(length, draw) ==
    [threw |-> FALSE, drawn |-> (length * 3) \div 4,
     id |-> Substring(base64urlEncode(RandomBytes((length * 3) \div 4, draw)), length)]

\* generateId(length) with the bytes it drew: getRandomValues throws above
\* its quota, else the base64url text of the bytes cut to length characters
generateId(length, draw) ==
    LET n == CeilThreeQuarters(length)
    IN  IF n > QuotaBytes THEN [threw |-> TRUE, drawn |-> 0, id |-> <<>>]
        ELSE [threw |-> FALSE, drawn |-> n,
              id |-> Substring(base64urlEncode(RandomBytes(n, draw)), length)]

(* ------------------------------ Home.tsx ------------------------------- *)
\* const chars = 'ABC...XYZabc...xyz0123456789-_'
PasswordChars ==
    [i \in 1..26 |-> 64 + i] \o [i \in 1..26 |-> 96 + i] \o [i \in 1..10 |-> 47 + i]
        \o <<45, 95>>

\* generateRandomPassword() with the bytes it drew
generateRandomPassword(draw) ==
    LET randomValues == RandomBytes(PasswordLength, draw)
    IN  [i \in 1..PasswordLength |->
            PasswordChars[(randomValues[i] % Len(PasswordChars)) + 1]]

\* a body that carries the password beside the three fields
SubmitBodyWithPassword(ttl, encrypted, encryptionPassword) ==
    [ttl |-> <<ttl>>, cipherText |-> <<encrypted.cipherText>>,
     iv |-> <<encrypted.iv>>, password |-> <<encryptionPassword>>]

\* JSON.stringify({ ttl, cipherText: encrypted.cipherText, iv: encrypted.iv })
SubmitBody(ttl, encrypted, encryptionPassword) ==
    [ttl |-> <<ttl>>, cipherText |-> <<encrypted.cipherText>>, iv |-> <<encrypted.iv>>]

\* `${baseUrl}/${noteId}~${encryptionPassword}` after the origin
ShareUrl(noteId, encryptionPassword) == <<Slash>> \o noteId \o <<Tilde>> \o encryptionPassword

(* ------------------------------- App.tsx ------------------------------- *)
\* the index of the first code unit of str that is in stops, else Len + 1
FirstOf(str, stops) ==
    IF \E i \in 1..Len(str) : str[i] \in stops
    THEN CHOOSE i \in 1..Len(str) :
            str[i] \in stops /\ \A j \in 1..(i - 1) : str[j] \notin stops
    ELSE Len(str) + 1

\* the pathname of a URL given after its origin: what precedes '?' and '#'
Pathname(url) == SubSeq(url, 1, FirstOf(url, {Hash, Question}) - 1)

\* str without the code units c at its end
StripTrailing(str, c) ==
    LET kept == {n \in 0..Len(str) : \A i \in (n + 1)..Len(str) : str[i] = c}
    IN  SubSeq(str, 1, CHOOSE n \in kept : \A m \in kept : n <= m)

\* the route the pathname matches, slashes at its end aside: "/" renders
\* Home, "/:idKey" renders ViewNote with the one segment as idKey, a deeper
\* path renders nothing
MatchRoute(url) ==
    LET segment == StripTrailing(Tail(Pathname(url)), Slash)
    IN  IF segment = <<>> THEN [element |-> "Home", idKey |-> <<>>]
        ELSE IF \E i \in 1..Len(segment) : segment[i] = Slash
        THEN [element |-> "none", idKey |-> <<>>]
        ELSE [element |-> "ViewNote", idKey |-> segment]

(* ----------------------------- ViewNote.tsx ---------------------------- *)
\* str.split(sep) for a separator of one code unit
RECURSIVE Split(_, _)
Split(str, sep) ==
    LET i == FirstOf(str, {sep})
    IN  IF i > Len(str) THEN <<str>>
        ELSE <<SubSeq(str, 1, i - 1)>> \o Split(SubSeq(str, i + 1, Len(str)), sep)

\* a path to fetch that is the whole idKey
FetchIdOfIdKey(parts) == parts[1] \o <<Tilde>> \o parts[2]

\* const [id, key] = parts; the id put in `${workerUrl}/fetch/${id}`
FetchId(parts) == parts[1]

\* an error message that is the name of the error thrown
CatchMessageOfError(thrown) == thrown

\* catch (err) { setError(...) }
CatchMessage(thrown) == "Failed to decrypt note. The key might be incorrect."

\* the error a failing decryptText throws: atob's InvalidCharacterError,
\* else the OperationError of crypto.subtle.decrypt
ThrownBy(cipherText, ivString) ==
    IF base64urlDecode(cipherText).threw \/ base64urlDecode(ivString).threw
    THEN "InvalidCharacterError"
    ELSE "OperationError"

(* ------------------------------ inputs --------------------------------- *)
\* A JSON field is <<>> when the body lacks it and <<v>> when it holds v.
\* the draws of the random source the model follows
Draws == {<<0, 0>>, <<255, 0>>, <<251, 4>>, <<90, 37>>, <<3, 101>>, <<190, 255>>,
          <<16, 16>>, <<62, 63>>}

\* the ids generateId() returns in the worker: those of two draws; a client
\* puts the same ids in the path of GET /api/fetch/{id}
IdDraws == {<<0, 0>>, <<251, 4>>}
Ids == {generateId(DefaultIdLength, d).id : d \in IdDraws}

\* the texts given to encryptText: '', 'A', 'AB', U+FEFF 'A', and e-acute
\* with U+1F600 (a surrogate pair)
Texts == {<<>>, <<65>>, <<65, 66>>, <<65279, 65>>, <<233, 55357, 56832>>}

\* texts of 0, 1, 2, 3 and 4 UTF-8 bytes: '', 'A', 'AB', the euro sign,
\* U+FEFF 'A'
TamperTexts == {<<>>, <<65>>, <<65, 66>>, <<8364>>, <<65279, 65>>}

\* the texts encrypted twice: 'A', and U+FEFF 'A'
TwiceTexts == {<<65>>, <<65279, 65>>}

\* the passwords given to encryptText ('p', 'q'), and to decryptText
Passwords == {<<112>>, <<113>>}
DecryptPasswords == Passwords \cup {<<112, 233>>}
TamperPasswords == {<<112>>}

\* the salts and ivs crypto.getRandomValues can give encryptText
Salts == {RandomBytes(SaltLength, d) : d \in {<<0, 0>>, <<251, 4>>}}
Ivs == {RandomBytes(IvLength, d) : d \in {<<0, 0>>, <<255, 0>>}}

\* ivs of another length, as a producer other than encryptText can use
ForeignIvs ==
    {RandomBytes(n, d) : n \in {IvLength - 1, IvLength + 1}, d \in {<<0, 0>>, <<90, 37>>}}

\* the lengths asked of generateId: short ones, and the first whose bytes
\* exceed the quota of crypto.getRandomValues
IdLengths == (0..MaxIdLength) \cup {(QuotaBytes * 4) \div 3 + 1}

\* bodies that pass the handler's validation; cipherText and iv are opaque
\* to the worker and written as tokens
PassingBodies ==
    [ttl : {<<-1>>, <<1>>}, cipherText : {<<"c1">>, <<"c2">>}, iv : {<<"v1">>}]

\* bodies with one field missing, empty or zero
FailingBodies ==
    { [ttl |-> <<>>,  cipherText |-> <<"c1">>, iv |-> <<"v1">>],
      [ttl |-> <<0>>, cipherText |-> <<"c1">>, iv |-> <<"v1">>],
      [ttl |-> <<1>>, cipherText |-> <<>>,     iv |-> <<"v1">>],
      [ttl |-> <<1>>, cipherText |-> <<"">>,   iv |-> <<"v1">>],
      [ttl |-> <<1>>, cipherText |-> <<"c1">>, iv |-> <<>>],
      [ttl |-> <<1>>, cipherText |-> <<"c1">>, iv |-> <<"">>] }

Bodies == PassingBodies \cup FailingBodies

\* the inputs of requests that contend for one id: the bodies with ttl = 1,
\* one body that fails the validation, one generated id
RaceBodies ==
    {b \in PassingBodies : b.ttl = <<1>>}
        \cup {[ttl |-> <<0>>, cipherText |-> <<"c1">>, iv |-> <<"v1">>]}

RaceIds == {generateId(DefaultIdLength, <<0, 0>>).id}

\* one body that passes the validation, with ttl = 1
OvertakeBodies == {b \in PassingBodies : b.ttl = <<1>> /\ b.cipherText = <<"c1">>}

NoBody == [ttl |-> <<>>, cipherText |-> <<>>, iv |-> <<>>]

\* what the user of Home enters: the note 'AB'; no password, 'pq', 'p~q' or
\* 'p#q'; the one draw of salt, of iv and of the random password
HomeContents == {<<65, 66>>}
HomePasswords == {<<>>, <<112, 113>>, <<112, Tilde, 113>>, <<112, Hash, 113>>}
HomeSalts == {RandomBytes(SaltLength, <<251, 4>>)}
HomeIvs == {RandomBytes(IvLength, <<255, 0>>)}
HomeDraws == {<<62, 63>>}

\* const encryptionPassword = password || generateRandomPassword();
\* const encrypted = await encryptText(content, encryptionPassword)
HomeEncrypted(content, password, draw, salt, iv) ==
    LET encryptionPassword ==
            IF password # <<>> THEN password ELSE generateRandomPassword(draw)
    IN  [content |-> content, password |-> password,
         encryptionPassword |-> encryptionPassword,
         encrypted |-> encryptText(content, encryptionPassword, salt, iv)]

\* the encryptions of Home over what the user enters and the draws
HomeEncryptions ==
    {HomeEncrypted(content, password, draw, salt, iv) :
        content \in HomeContents, password \in HomePasswords, draw \in HomeDraws,
        salt \in HomeSalts, iv \in HomeIvs}

\* the key of the share URLs a recipient opens besides the URL Home shows:
\* 'pq'
ViewKeys == {<<112, 113>>}

\* an envelope of 'AB' under 'pq', as another client of the worker makes it
Sealed == encryptText(<<65, 66>>, <<112, 113>>, RandomBytes(SaltLength, <<0, 0>>),
                      RandomBytes(IvLength, <<0, 0>>))

\* the envelope with a character of its ciphertext replaced by 'A', or by
\* 'B' where it was 'A'
Tampered == [Sealed.cipherText EXCEPT ![2 * SaltLength] = IF @ = 65 THEN 66 ELSE 65]

\* the cipherText fields other clients submit: the envelope, the tampered
\* envelope, 'AAAA' (3 bytes, shorter than a salt) and '!' (no base64url
\* text)
ForeignCipherTexts == {Sealed.cipherText, Tampered, <<65, 65, 65, 65>>, <<33>>}

\* the bodies other clients submit: with ttl = 1, and the envelope with
\* ttl = -1, whose record is expired when it is stored
ForeignBodies ==
    {[ttl |-> <<1>>, cipherText |-> <<c>>, iv |-> <<Sealed.iv>>] : c \in ForeignCipherTexts}
        \cup {[ttl |-> <<-1>>, cipherText |-> <<Sealed.cipherText>>, iv |-> <<Sealed.iv>>]}

(* ------------------------------- state --------------------------------- *)
VARIABLES
    clock,     \* the wall clock: what Date.now() returns, in milliseconds
    texts,     \* the rows of table texts
    pc,        \* where each request's handler stands
    req,       \* each request: its route, its JSON body, the id of its path
    loc,       \* the handler's locals: id, now, expiresAt, result, and the
               \* number of INSERT statements it has run
    resp,      \* the response of each handler
    before,    \* history: the requests that were answered when this one arrived
    enc,       \* the calls of encryptText: arguments, salt and iv drawn, result
    dec,       \* the call of decryptText: arguments, their origin, result
    gen,       \* the call of generateId: length, bytes drawn, result
    home,      \* the Home component once it submits: its state and the
               \* locals of handleEncryptAndSubmit
    view       \* the ViewNote component once it is rendered: its state and
               \* the locals of fetchAndDecrypt

workerVars == <<clock, texts, pc, req, loc, resp, before>>
cryptoVars == <<enc, dec, gen>>
clientVars == <<home, view>>
vars == <<clock, texts, pc, req, loc, resp, before, enc, dec, gen, home, view>>

\* the requests of the behaviour, numbered in the order of their arrival
Reqs == DOMAIN pc

NoReq == [route |-> "none", body |-> NoBody, id |-> <<>>]
NoLoc == [id |-> <<>>, dateNow |-> 0, now |-> 0, expiresAt |-> 0, result |-> <<>>,
          attempts |-> 0]
NoResp == [type |-> "", status |-> 0, message |-> "", data |-> <<>>]

(* ------------------------- JavaScript helpers -------------------------- *)
\* !x for a JSON number field: undefined and 0 are falsy
FalsyNumber(f) == IF f = <<>> THEN TRUE ELSE f[1] = 0

\* x === undefined in place of !x: '' is not caught
FalsyStringUndefined(f) == f = <<>>

\* !x for a JSON string field: undefined and '' are falsy
FalsyString(f) == IF f = <<>> THEN TRUE ELSE Len(f[1]) = 0

\* if (!ttl || !cipherText || !iv)
MissingParameters(body) ==
    IF FalsyNumber(body.ttl) THEN TRUE
    ELSE IF FalsyString(body.cipherText) THEN TRUE
    ELSE FalsyString(body.iv)

\* Date.now()
DateNow == clock

\* Math.floor(ms / 1000)
FloorSeconds(ms) == ms \div MsPerSec

ErrorResponse(status, message) ==
    [type |-> "error", status |-> status, message |-> message, data |-> <<>>]

SuccessResponse(data) ==
    [type |-> "success", status |-> OK, message |-> "", data |-> <<data>>]

(* ------------------------------ D1 / SQL ------------------------------- *)
\* the row INSERT INTO texts (id, cipher_text, iv, created_at, expires_at) binds
Row(id, cipherText, iv, now, expiresAt) ==
    [id |-> id, cipher_text |-> cipherText, iv |-> iv,
     created_at |-> now, expires_at |-> expiresAt]

\* a table without the primary key: no INSERT throws
InsertThrowsNever(row) == FALSE

\* an INSERT that throws whatever the table holds
InsertThrowsAlways(row) == TRUE

\* a key over all the columns: only the INSERT of a row that is present throws
InsertThrowsOnSameRow(row) == row \in texts

\* id TEXT PRIMARY KEY: an INSERT of an id that is present throws
InsertThrows(row) == \E x \in texts : x.id = row.id

\* an INSERT that also sweeps the rows that expired before the new one
InsertIntoSwept(row) == {x \in texts : ~(x.expires_at < row.created_at)} \cup {row}

\* the table after a successful INSERT
InsertInto(row) == texts \cup {row}

\* a SELECT that returns column cipher_text for iv
SelectedCipherTextAsIv(x) ==
    [id |-> x.id, cipher_text |-> x.cipher_text, iv |-> x.cipher_text,
     expires_at |-> x.expires_at]

\* the columns SELECT id, cipher_text, iv, expires_at returns of a row
Selected(x) ==
    [id |-> x.id, cipher_text |-> x.cipher_text, iv |-> x.iv,
     expires_at |-> x.expires_at]

\* a SELECT without its WHERE clause: the first row of the table
SelectFirstOfTable(id) ==
    IF texts = {} THEN <<>> ELSE <<Selected(CHOOSE x \in texts : TRUE)>>

\* SELECT ... FROM texts WHERE id = ? ... .first(): null (<<>>) or one row
SelectFirst(id) ==
    LET rows == {x \in texts : x.id = id}
    IN  IF rows = {} THEN <<>> ELSE <<Selected(CHOOSE x \in rows : TRUE)>>

\* DELETE FROM texts WHERE id = ?: removing no row is not an error
DeleteThrows(id) == FALSE

\* a DELETE that removes nothing
DeleteNothing(id) == texts

\* the table after DELETE FROM texts WHERE id = ?
DeleteFrom(id) == {x \in texts : x.id # id}

\* const expiresAt = now + ttl
ExpiresAt(now, ttl) == now + ttl

\* the expiry check one second late
IsExpiredLate(row, now) == row.expires_at + 1 < now

\* if ((result.expires_at as number) < now)
IsExpired(row, now) == row.expires_at < now

(* ------------------------------ actions -------------------------------- *)
\* no request has arrived, the table is empty
InitReqs(n) ==
    /\ clock = 0
    /\ texts = {}
    /\ pc = [r \in 1..n |-> "idle"]
    /\ req = [r \in 1..n |-> NoReq]
    /\ loc = [r \in 1..n |-> NoLoc]
    /\ resp = [r \in 1..n |-> NoResp]
    /\ before = [r \in 1..n |-> {}]
    /\ enc = <<>>
    /\ dec = <<>>
    /\ gen = <<>>
    /\ home = <<>>
    /\ view = <<>>

Init == InitReqs(NumReqs)

\* the requests whose handler has answered
Answered == {p \in Reqs : pc[p] = "done"}

\* requests are numbered in the order in which their handlers start
Arrives(r) == pc[r] = "idle" /\ (IF r = 1 THEN TRUE ELSE pc[r - 1] # "idle")

\* time passes: the clock advances by ms milliseconds
Tick(ms) ==
    /\ clock + ms <= MaxNow * MsPerSec
    /\ clock' = clock + ms
    /\ UNCHANGED <<texts, pc, req, loc, resp, before>> /\ UNCHANGED cryptoVars

\* POST /api/submit whose body fails the validation: 400
SubmitReject(r, bodies) ==
    \E body \in bodies :
        /\ Arrives(r)
        /\ MissingParameters(body)
        /\ req' = [req EXCEPT ![r] = [route |-> "submit", body |-> body, id |-> <<>>]]
        /\ resp' = [resp EXCEPT ![r] =
                      ErrorResponse(BadRequest, "Missing required parameters: ttl, cipherText, iv")]
        /\ before' = [before EXCEPT ![r] = Answered]
        /\ pc' = [pc EXCEPT ![r] = "done"]
        /\ UNCHANGED <<clock, texts, loc>> /\ UNCHANGED cryptoVars

\* POST /api/submit up to the await of the INSERT
SubmitBegin(r, bodies, ids) ==
    \E body \in bodies, id \in ids :
        /\ Arrives(r)
        /\ ~MissingParameters(body)
        /\ req' = [req EXCEPT ![r] = [route |-> "submit", body |-> body, id |-> <<>>]]
        /\ loc' = [loc EXCEPT ![r] =
                     [id |-> id, dateNow |-> DateNow, now |-> FloorSeconds(DateNow),
                      expiresAt |-> ExpiresAt(FloorSeconds(DateNow), body.ttl[1]),
                      result |-> <<>>, attempts |-> 0]]
        /\ before' = [before EXCEPT ![r] = Answered]
        /\ pc' = [pc EXCEPT ![r] = "insert"]
        /\ UNCHANGED <<clock, texts, resp>> /\ UNCHANGED cryptoVars

\* the INSERT runs; the handler answers 200, or 500 from its catch
SubmitInsert(r) ==
    /\ pc[r] = "insert"
    /\ LET row == Row(loc[r].id, req[r].body.cipherText[1], req[r].body.iv[1],
                      loc[r].now, loc[r].expiresAt)
       IN  IF InsertThrows(row)
           THEN /\ texts' = texts
                /\ resp' = [resp EXCEPT ![r] =
                              ErrorResponse(ServerError, "Failed to store data")]
           ELSE /\ texts' = InsertInto(row)
                /\ resp' = [resp EXCEPT ![r] =
                              \* url is `${url.origin}/${id}`: the origin is left out
                              SuccessResponse([id |-> loc[r].id, url |-> loc[r].id,
                                               expiresAt |-> loc[r].expiresAt])]
    /\ loc' = [loc EXCEPT ![r].attempts = @ + 1]
    /\ pc' = [pc EXCEPT ![r] = "done"]
    /\ UNCHANGED <<clock, req, before>> /\ UNCHANGED cryptoVars

\* GET /api/fetch/{id} up to the await of the SELECT
FetchBegin(r, ids) ==
    \E id \in ids :
        /\ Arrives(r)
        /\ req' = [req EXCEPT ![r] = [route |-> "fetch", body |-> NoBody, id |-> id]]
        /\ loc' = [loc EXCEPT ![r] =
                     [id |-> id, dateNow |-> DateNow, now |-> FloorSeconds(DateNow),
                      expiresAt |-> 0, result |-> <<>>, attempts |-> 0]]
        /\ before' = [before EXCEPT ![r] = Answered]
        /\ pc' = [pc EXCEPT ![r] = "select"]
        /\ UNCHANGED <<clock, texts, resp>> /\ UNCHANGED cryptoVars

\* the SELECT runs; the handler answers 404 or 200, or awaits the DELETE
FetchSelect(r) ==
    /\ pc[r] = "select"
    /\ LET result == SelectFirst(loc[r].id)
       IN  /\ loc' = [loc EXCEPT ![r].result = result]
           /\ IF result = <<>>
              THEN /\ resp' = [resp EXCEPT ![r] = ErrorResponse(NotFound, "Text not found")]
                   /\ pc' = [pc EXCEPT ![r] = "done"]
              ELSE IF IsExpired(result[1], loc[r].now)
              THEN /\ resp' = resp
                   /\ pc' = [pc EXCEPT ![r] = "delete"]
              ELSE /\ resp' = [resp EXCEPT ![r] =
                                 SuccessResponse([id |-> result[1].id,
                                                  cipher_text |-> result[1].cipher_text,
                                                  iv |-> result[1].iv,
                                                  expiresAt |-> result[1].expires_at])]
                   /\ pc' = [pc EXCEPT ![r] = "done"]
    /\ UNCHANGED <<clock, texts, req, before>> /\ UNCHANGED cryptoVars

\* the DELETE runs; the handler answers 410, or 500 from its catch
FetchDelete(r) ==
    /\ pc[r] = "delete"
    /\ IF DeleteThrows(loc[r].id)
       THEN /\ texts' = texts
            /\ resp' = [resp EXCEPT ![r] =
                          ErrorResponse(ServerError, "Failed to retrieve data")]
       ELSE /\ texts' = DeleteFrom(loc[r].id)
            /\ resp' = [resp EXCEPT ![r] = ErrorResponse(Gone, "Text has expired")]
    /\ pc' = [pc EXCEPT ![r] = "done"]
    /\ UNCHANGED <<clock, req, loc, before>> /\ UNCHANGED cryptoVars

\* the worker's steps over the request bodies and the ids given
NextOver(bodies, ids, ms) ==
    \/ Tick(ms) /\ UNCHANGED clientVars
    \/ \E r \in Reqs : SubmitReject(r, bodies) /\ UNCHANGED clientVars
    \/ \E r \in Reqs : SubmitBegin(r, bodies, ids) /\ UNCHANGED clientVars
    \/ \E r \in Reqs : SubmitInsert(r) /\ UNCHANGED clientVars
    \/ \E r \in Reqs : FetchBegin(r, ids) /\ UNCHANGED clientVars
    \/ \E r \in Reqs : FetchSelect(r) /\ UNCHANGED clientVars
    \/ \E r \in Reqs : FetchDelete(r) /\ UNCHANGED clientVars

\* requests that contend for one id, the clock observed at whole seconds
Next == NextOver(RaceBodies, RaceIds, MsPerSec)

Spec == Init /\ [][Next]_vars

\* requests over all the bodies and ids, the clock observed at whole seconds
InitWide == InitReqs(NumWideReqs)

NextWide == NextOver(Bodies, Ids, MsPerSec)

SpecWide == InitWide /\ [][NextWide]_vars

\* the test file's setting: two requests, the clock observed every half second
InitTest == InitReqs(NumTestReqs)

NextTest == NextOver(Bodies, Ids, TestTickMs)

SpecTest == InitTest /\ [][NextTest]_vars

\* valid submits and fetches of one id, each statement a step of its own
InitOvertake == InitReqs(NumOvertakeReqs)

NextOvertake ==
    \/ Tick(MsPerSec) /\ UNCHANGED clientVars
    \/ \E r \in Reqs : SubmitBegin(r, OvertakeBodies, RaceIds) /\ UNCHANGED clientVars
    \/ \E r \in Reqs : SubmitInsert(r) /\ UNCHANGED clientVars
    \/ \E r \in Reqs : FetchBegin(r, RaceIds) /\ UNCHANGED clientVars
    \/ \E r \in Reqs : FetchSelect(r) /\ UNCHANGED clientVars
    \/ \E r \in Reqs : FetchDelete(r) /\ UNCHANGED clientVars

SpecOvertake == InitOvertake /\ [][NextOvertake]_vars

(* ------------------------- the client's calls -------------------------- *)
\* encryptText(text, password): the salt and the iv are drawn anew
EncryptText(plaintexts, passwords, calls) ==
    \E text \in plaintexts, password \in passwords, salt \in Salts, iv \in Ivs :
        /\ Len(enc) < calls
        /\ enc' = Append(enc, [text |-> text, password |-> password,
                               salt |-> salt, iv |-> iv,
                               out |-> encryptText(text, password, salt, iv)])
        /\ UNCHANGED <<dec, gen>> /\ UNCHANGED workerVars /\ UNCHANGED clientVars

\* decryptText(cipherText, ivString, password); of, text and flip record
\* where the arguments come from: the call of encryptText (0: none), the
\* text encrypted, and the bit flipped in a field (<<>>: none)
DecryptText(cipherText, ivString, password, of, text, flip) ==
    /\ dec = <<>>
    /\ dec' = <<[cipherText |-> cipherText, ivString |-> ivString,
                 password |-> password, of |-> of, text |-> text, flip |-> flip,
                 result |-> decryptText(cipherText, ivString, password)]>>
    /\ UNCHANGED <<enc, gen>> /\ UNCHANGED workerVars /\ UNCHANGED clientVars

\* decryptText of the result of a call of encryptText, under any password
DecryptOutput(passwords) ==
    \E k \in DOMAIN enc, password \in passwords :
        DecryptText(enc[k].out.cipherText, enc[k].out.iv, password, k, enc[k].text, <<>>)

\* bit `bit` of code unit i of str flipped
FlipBit(str, i, bit) ==
    [str EXCEPT ![i] = IF (@ \div (2 ^ bit)) % 2 = 1 THEN @ - 2 ^ bit ELSE @ + 2 ^ bit]

\* decryptText, under the password of the encryption, of the result of a
\* call of encryptText with one bit of cipherText or of iv flipped
DecryptFlipped ==
    \E k \in DOMAIN enc, bit \in 0..(CharBits - 1) :
        \/ \E i \in 1..Len(enc[k].out.cipherText) :
              DecryptText(FlipBit(enc[k].out.cipherText, i, bit), enc[k].out.iv,
                          enc[k].password, k, enc[k].text, <<"cipherText", i, bit>>)
        \/ \E i \in 1..Len(enc[k].out.iv) :
              DecryptText(enc[k].out.cipherText, FlipBit(enc[k].out.iv, i, bit),
                          enc[k].password, k, enc[k].text, <<"iv", i, bit>>)

\* decryptText of an envelope made as encryptText makes it, by a producer
\* that uses an iv of another length
DecryptForeign(plaintexts, passwords) ==
    \E text \in plaintexts, password \in passwords, salt \in Salts, iv \in ForeignIvs :
        LET made == encryptText(text, password, salt, iv)
        IN  DecryptText(made.cipherText, made.iv, password, 0, text, <<>>)

\* generateId(length)
GenerateId(lengths, draws) ==
    \E length \in lengths, draw \in draws :
        /\ gen = <<>>
        /\ gen' = <<[length |-> length] @@ generateId(length, draw)>>
        /\ UNCHANGED <<enc, dec>> /\ UNCHANGED workerVars /\ UNCHANGED clientVars

\* the client alone: no request reaches the worker
InitCrypto == InitReqs(0)

\* encryptText and decryptText of its results
NextCrypto ==
    \/ EncryptText(Texts, Passwords, NumCryptoEncrypts)
    \/ DecryptOutput(DecryptPasswords)

SpecCrypto == InitCrypto /\ [][NextCrypto]_vars

\* encryptText called again, and decryptText of either result
NextTwice ==
    \/ EncryptText(TwiceTexts, TamperPasswords, NumEncrypts)
    \/ DecryptOutput(TamperPasswords)

SpecTwice == InitCrypto /\ [][NextTwice]_vars

\* decryptText of tampered and of foreign envelopes
NextTamper ==
    \/ EncryptText(TamperTexts, TamperPasswords, NumTamperEncrypts)
    \/ DecryptFlipped
    \/ DecryptForeign(TamperTexts, TamperPasswords)

SpecTamper == InitCrypto /\ [][NextTamper]_vars

\* generateId over the lengths and the draws, and the submits, which call
\* generateId() with its default length
InitId == InitReqs(NumIdReqs)

NextId ==
    \/ GenerateId(IdLengths, Draws)
    \/ \E r \in Reqs : SubmitBegin(r, PassingBodies, Ids) /\ UNCHANGED clientVars
    \/ \E r \in Reqs : SubmitInsert(r) /\ UNCHANGED clientVars

SpecId == InitId /\ [][NextId]_vars

(* ------------------------- Home and ViewNote --------------------------- *)
\* response.ok
ResponseOk(response) == response.status >= 200 /\ response.status <= 299

\* handleEncryptAndSubmit up to the await of the POST, which reaches the
\* worker as request r: the content is not empty, the password is the
\* user's or a generated one
HomeSubmit(r) ==
    \E e \in HomeEncryptions :
        /\ home = <<>>
        /\ e.content # <<>>
        /\ SubmitBegin(r, {SubmitBody(ShortestTtl, e.encrypted, e.encryptionPassword)}, RaceIds)
        /\ home' = <<[content |-> e.content, password |-> e.password,
                      ttl |-> ShortestTtl,
                      encryptionPassword |-> e.encryptionPassword,
                      encrypted |-> e.encrypted, request |-> r,
                      isEncrypting |-> TRUE, shareUrl |-> <<>>,
                      showResult |-> FALSE, alerted |-> ""]>>
        /\ view' = view

\* handleEncryptAndSubmit from the response on: the share URL, or an alert
HomeResponse ==
    /\ home # <<>>
    /\ home[1].isEncrypting
    /\ pc[home[1].request] = "done"
    /\ LET response == resp[home[1].request]
       IN  IF ResponseOk(response)
           THEN home' = <<[home[1] EXCEPT
                             !.shareUrl = ShareUrl(response.data[1].id,
                                                   home[1].encryptionPassword),
                             !.showResult = TRUE,
                             !.content = <<>>,
                             !.isEncrypting = FALSE]>>
           ELSE home' = <<[home[1] EXCEPT
                             !.alerted = "Submission failed. Please try again.",
                             !.isEncrypting = FALSE]>>
    /\ view' = view
    /\ UNCHANGED workerVars /\ UNCHANGED cryptoVars

\* the URLs a recipient opens: the share URL Home shows, and URLs of the
\* ids with the keys of ViewKeys
ViewUrls ==
    {ShareUrl(id, key) : id \in RaceIds, key \in ViewKeys}
        \cup (IF home # <<>> THEN {home[1].shareUrl} \ {<<>>} ELSE {})

\* the state of ViewNote when it is rendered for a URL
Rendered(url) ==
    [url |-> url, idKey |-> MatchRoute(url).idKey, id |-> <<>>, key |-> <<>>,
     request |-> 0, isLoading |-> TRUE, error |-> "", decryptedContent |-> <<>>,
     decrypted |-> <<>>]

\* fetchAndDecrypt of an idKey that does not split in two parts
ViewInvalid ==
    \E url \in ViewUrls :
        /\ view = <<>>
        /\ MatchRoute(url).element = "ViewNote"
        /\ Len(Split(MatchRoute(url).idKey, Tilde)) # 2
        /\ view' = <<[Rendered(url) EXCEPT
                         !.error = "Invalid URL format. Expected format: /{id}~{key}",
                         !.isLoading = FALSE]>>
        /\ home' = home
        /\ UNCHANGED workerVars /\ UNCHANGED cryptoVars

\* fetchAndDecrypt up to the await of the GET, which reaches the worker as
\* request r
ViewFetch(r) ==
    \E url \in ViewUrls :
        LET parts == Split(MatchRoute(url).idKey, Tilde)
        IN  /\ view = <<>>
            /\ MatchRoute(url).element = "ViewNote"
            /\ Len(parts) = 2
            /\ FetchBegin(r, {FetchId(parts)})
            /\ view' = <<[Rendered(url) EXCEPT
                             !.id = parts[1], !.key = parts[2], !.request = r]>>
            /\ home' = home

\* fetchAndDecrypt from the response on: an error for a response that is
\* not ok, else the call of decryptText and its text, or the error of the
\* catch
ViewResponse ==
    /\ view # <<>>
    /\ view[1].isLoading
    /\ pc[view[1].request] = "done"
    /\ LET response == resp[view[1].request]
       IN  IF ~ResponseOk(response)
           THEN view' = <<[view[1] EXCEPT
                             !.error = IF response.status = NotFound
                                       THEN "Note not found or has expired"
                                       ELSE "Failed to fetch note",
                             !.isLoading = FALSE]>>
           ELSE LET cipher_text == response.data[1].cipher_text
                    iv == response.data[1].iv
                    decrypted == decryptText(cipher_text, iv, view[1].key)
                IN  view' = <<[view[1] EXCEPT
                                 !.decrypted =
                                     Append(@, [cipherText |-> cipher_text,
                                                ivString |-> iv,
                                                password |-> view[1].key,
                                                result |-> decrypted]),
                                 !.decryptedContent =
                                     IF decrypted.threw THEN @ ELSE decrypted.text,
                                 !.error =
                                     IF decrypted.threw
                                     THEN CatchMessage(ThrownBy(cipher_text, iv))
                                     ELSE @,
                                 !.isLoading = FALSE]>>
    /\ home' = home
    /\ UNCHANGED workerVars /\ UNCHANGED cryptoVars

\* what ViewNote renders: the spinner, the error box, or the content
Shown ==
    IF view[1].isLoading THEN [box |-> "loading", text |-> <<>>]
    ELSE IF view[1].error # "" THEN [box |-> "error", text |-> view[1].error]
    ELSE [box |-> "content", text |-> view[1].decryptedContent]

\* Home, ViewNote and other clients of the worker, within one second
InitShare == InitReqs(NumShareReqs)

NextShare ==
    \/ \E r \in Reqs : HomeSubmit(r)
    \/ HomeResponse
    \/ \E r \in Reqs : SubmitBegin(r, ForeignBodies, RaceIds) /\ UNCHANGED clientVars
    \/ \E r \in Reqs : SubmitInsert(r) /\ UNCHANGED clientVars
    \/ ViewInvalid
    \/ \E r \in Reqs : ViewFetch(r)
    \/ \E r \in Reqs : FetchSelect(r) /\ UNCHANGED clientVars
    \/ \E r \in Reqs : FetchDelete(r) /\ UNCHANGED clientVars
    \/ ViewResponse

SpecShare == InitShare /\ [][NextShare]_vars

(* --------------------- vocabulary of the properties -------------------- *)
IsSubmit(r) == req[r].route = "submit"
IsFetch(r) == req[r].route = "fetch"
Done(r) == pc[r] = "done"
Status(r) == resp[r].status

\* a submit that passed the validation and generated its id
Validated(p) == IsSubmit(p) /\ ~MissingParameters(req[p].body)

\* a submit answered with success
Succeeded(p) == Validated(p) /\ Done(p) /\ Status(p) = OK

\* the row submit p binds to its INSERT
RowOf(p) ==
    Row(loc[p].id, req[p].body.cipherText[1], req[p].body.iv[1],
        loc[p].now, loc[p].expiresAt)

\* the SELECT of fetch q has run and returned a row
FoundRow(q) == IsFetch(q) /\ pc[q] \in {"delete", "done"} /\ loc[q].result # <<>>

\* the SELECT of fetch q returned the row of submit p
Found(q, p) == FoundRow(q) /\ loc[q].result = <<Selected(RowOf(p))>>

\* a row with this id is stored
Present(id) == \E x \in texts : x.id = id

(* ------------------------------- C1 ------------------------------------ *)
\* C1: a fetch that read the clock at now >= expires_at of the record its
\* SELECT returned (now = expires_at included) does not return the record:
\* it answers 410 Expired without data.
C1_ExpiredAtExpiresAt ==
    \A q \in Reqs :
        (FoundRow(q) /\ Done(q) /\ loc[q].now >= loc[q].result[1].expires_at)
            => (Status(q) = Gone /\ resp[q].data = <<>>)

(* ------------------------------- C2 ------------------------------------ *)
\* C2: a record submitted with ttl = 1 at the instant t0 is answered 410
\* 'Text has expired' by a fetch of its id issued 1.5 s or more after t0,
\* whatever the sub-second fraction of t0.
C2_ExpiredAfterTestDelay ==
    \A p, q \in Reqs :
        (/\ Succeeded(p) /\ req[p].body.ttl = <<1>>
         /\ Done(q) /\ Found(q, p) /\ p \in before[q]
         /\ loc[q].dateNow >= loc[p].dateNow + TestDelayMs)
            => (Status(q) = Gone /\ resp[q].message = "Text has expired")

NoSubmitBetween(r, q) ==
    \A s \in Reqs :
        (Succeeded(s) /\ loc[s].id = loc[r].id) => (s \in before[r] \/ q \in before[s])

\* the step in which fetch r answers 410 leaves no record of its id
GoneLeavesAbsent ==
    \A r \in Reqs :
        (pc[r] = "delete" /\ resp'[r].status = Gone) => ~(\E x \in texts' : x.id = loc[r].id)

\* a fetch of the same id that arrives after r answered 410 answers 404
NextFetchNotFound ==
    \A r, q \in Reqs :
        (/\ IsFetch(r) /\ Done(r) /\ Status(r) = Gone
         /\ IsFetch(q) /\ Done(q) /\ loc[q].id = loc[r].id
         /\ r \in before[q] /\ NoSubmitBetween(r, q))
            => (Status(q) = NotFound /\ resp[q].message = "Text not found")

\* C4: when a fetch answers 410 the record of its id is absent once the
\* fetch completes, and the next fetch of the same id, with no submit
\* creating the id in between, answers 404 'Text not found'.
C4_GoneThenNotFound == []NextFetchNotFound /\ [][GoneLeavesAbsent]_vars

\* reached: a stored record, a fetch of it answered 410, a later fetch 404
C4_Witness ==
    \E s, r, q \in Reqs :
        /\ Succeeded(s) /\ loc[r].id = loc[s].id /\ Found(r, s)
        /\ Done(r) /\ Status(r) = Gone
        /\ IsFetch(q) /\ Done(q) /\ loc[q].id = loc[r].id /\ r \in before[q]
        /\ NoSubmitBetween(r, q) /\ Status(q) = NotFound
        /\ ~Present(loc[r].id)

(* ------------------------------- C5 ------------------------------------ *)
\* C5: every fetch of an id whose record is expired (now >= expires_at)
\* answers 410 or 404, also when several of them pass the existence check
\* before any of them deletes: none answers 200 with data, none answers 500.
C5_ExpiredFetchesHarmless ==
    \A q \in Reqs :
        (IsFetch(q) /\ Done(q)) =>
            /\ Status(q) # ServerError
            /\ (loc[q].result # <<>> /\ loc[q].result[1].expires_at <= loc[q].now)
                  => (Status(q) \in {Gone, NotFound} /\ Status(q) # OK)

(* ------------------------------- C6 ------------------------------------ *)
\* the table holds at most one row per id
UniqueIds == \A x, y \in texts : x.id = y.id => x = y

\* every stored row is, column by column, the row of a submit answered success
StoredByWinner == \A x \in texts : \E p \in Reqs : Succeeded(p) /\ x = RowOf(p)

\* q arrived while p awaited its INSERT, with the same generated id and
\* another payload, both with a positive ttl
ConcurrentSameId(p, q) ==
    /\ p < q /\ Validated(p) /\ Validated(q) /\ p \notin before[q]
    /\ loc[p].id = loc[q].id
    /\ req[p].body.cipherText # req[q].body.cipherText
    /\ req[p].body.ttl[1] >= 1 /\ req[q].body.ttl[1] >= 1

SingleAttempt ==
    \A r \in Reqs :
        (pc[r] = "insert" /\ pc'[r] # "insert") =>
            /\ pc'[r] = "done"
            /\ loc'[r].attempts = 1
            /\ loc'[r].id = loc[r].id
            /\ IF Present(loc[r].id)
               THEN resp'[r] = ErrorResponse(ServerError, "Failed to store data")
               ELSE /\ resp'[r].status = OK
                    /\ resp'[r].data[1].id = loc[r].id

CollisionKeepsRow ==
    \A r \in Reqs :
        (pc[r] = "insert" /\ pc'[r] = "done" /\ Present(loc[r].id)) =>
            /\ texts' = texts
            /\ resp'[r].status # OK
            /\ resp'[r].data = <<>>

\* C8: a submit whose generated id is the id of a stored record never
\* overwrites it: cipher_text, iv, created_at and expires_at of the record
\* are unchanged and the submit does not answer success with that id.
C8_CollisionNeverOverwrites == [][CollisionKeepsRow]_vars

\* reached: a submit answered 500 while the record of its id, with another
\* payload, is stored
C8_Witness ==
    \E p \in Reqs :
        /\ Validated(p) /\ Done(p) /\ Status(p) = ServerError
        /\ \E x \in texts :
              x.id = loc[p].id /\ x.cipher_text # req[p].body.cipherText[1]

(* ------------------------------- C9 ------------------------------------ *)
\* the JSON field holds a positive integer
PositiveInteger(f) == IF f = <<>> THEN FALSE ELSE f[1] >= 1

\* C9: a submit whose ttl is not a positive integer is rejected with 400
\* and stores no record.
C9_TtlPositiveInteger ==
    \A p \in Reqs :
        (IsSubmit(p) /\ Done(p) /\ ~PositiveInteger(req[p].body.ttl))
            => (Status(p) = BadRequest /\ loc[p].attempts = 0)

(* ------------------------------- C10 ----------------------------------- *)
\* C10: every stored record has expires_at > created_at, with expires_at =
\* created_at + ttl of the submit that created it.
C10_ExpiresAfterCreated ==
    \A x \in texts :
        /\ x.expires_at > x.created_at
        /\ \E p \in Reqs :
              /\ Succeeded(p) /\ x = RowOf(p)
              /\ x.expires_at = x.created_at + req[p].body.ttl[1]

(* ------------------------------- C11 ----------------------------------- *)
\* the JSON string field is missing, or is the empty string
MissingOrEmpty(f) == IF f = <<>> THEN TRUE ELSE f[1] = ""

\* one of ttl, cipherText, iv is missing or empty (a number is never empty)
LacksParameter(body) ==
    \/ body.ttl = <<>>
    \/ MissingOrEmpty(body.cipherText)
    \/ MissingOrEmpty(body.iv)

\* a submit that lacks a parameter is answered 400 with the message
RejectedWithMessage ==
    \A p \in Reqs :
        (IsSubmit(p) /\ LacksParameter(req[p].body)) =>
            /\ Done(p)
            /\ resp[p] = [type |-> "error", status |-> BadRequest,
                          message |-> "Missing required parameters: ttl, cipherText, iv",
                          data |-> <<>>]
            /\ loc[p].attempts = 0

\* the step in which such a submit arrives answers it and leaves the table
RejectLeavesStore ==
    \A p \in Reqs :
        (pc[p] = "idle" /\ req'[p].route = "submit" /\ LacksParameter(req'[p].body))
            => (pc'[p] = "done" /\ texts' = texts)

OneAtATime ==
    \A r, s \in Reqs : (r < s /\ pc[s] # "idle") => r \in before[s]

\* C12: when requests are handled one at a time, after a submit answers
\* success with id and expiresAt every fetch of that id that reads the clock
\* before the record expires (now < expires_at) answers 200 with cipher_text
\* and iv equal to the submitted strings and with the expiresAt the submit
\* returned.
C12_SubmitFetchRoundTrip ==
    \A p, q \in Reqs :
        (/\ OneAtATime /\ Succeeded(p) /\ p < q
         /\ IsFetch(q) /\ Done(q) /\ req[q].id = resp[p].data[1].id
         /\ loc[q].now < resp[p].data[1].expiresAt)
            => resp[q] = [type |-> "success", status |-> OK, message |-> "",
                          data |-> <<[id |-> resp[p].data[1].id,
                                      cipher_text |-> req[p].body.cipherText[1],
                                      iv |-> req[p].body.iv[1],
                                      expiresAt |-> resp[p].data[1].expiresAt]>>]

\* reached: a submit and, one at a time, two fetches of its id answered 200
C12_Witness ==
    \E p, q1, q2 \in Reqs :
        /\ OneAtATime /\ Succeeded(p) /\ p < q1 /\ q1 < q2
        /\ \A q \in {q1, q2} :
              /\ IsFetch(q) /\ Done(q) /\ req[q].id = resp[p].data[1].id
              /\ loc[q].now < resp[p].data[1].expiresAt
              /\ Status(q) = OK

(* ------------------------------- C13 ----------------------------------- *)
\* the SELECT of a fetch whose id has no row answers 404 and leaves the table
AbsentAnswersNotFound ==
    \A q \in Reqs :
        (pc[q] = "select" /\ pc'[q] # "select" /\ ~Present(req[q].id)) =>
            /\ pc'[q] = "done"
            /\ resp'[q] = [type |-> "error", status |-> NotFound,
                           message |-> "Text not found", data |-> <<>>]
            /\ texts' = texts

\* C13: a fetch of an id for which the store holds no record answers 404
\* with type 'error' and message 'Text not found', and leaves the store
\* unchanged.
C13_AbsentIdNotFound == [][AbsentAnswersNotFound]_vars

\* reached: a fetch answered 404 while the record of another id is stored
C13_Witness ==
    \E q \in Reqs :
        /\ IsFetch(q) /\ Done(q) /\ Status(q) = NotFound
        /\ loc[q].result = <<>>
        /\ texts # {} /\ ~Present(req[q].id)

(* ------------------------------- C14 ----------------------------------- *)
\* decryptText was called with the two fields a call of encryptText returned
DecryptedOutput == dec # <<>> /\ dec[1].of > 0 /\ dec[1].flip = <<>>

\* C14: for all plaintexts P and passwords W, decryptText applied to the two
\* fields returned by encryptText(P, W) and to W returns exactly P.
C14_RoundTrip ==
    (DecryptedOutput /\ dec[1].password = enc[dec[1].of].password)
        => dec[1].result = [threw |-> FALSE, text |-> enc[dec[1].of].text]

C16_BitFlipFails ==
    (dec # <<>> /\ dec[1].flip # <<>>) =>
        /\ dec[1].result.threw
        /\ ~dec[1].result.threw => dec[1].result.text = dec[1].text

(* ------------------------------- C17 ----------------------------------- *)
\* calls j and k of encryptText had the same plaintext and password
SameArguments(j, k) ==
    j < k /\ enc[j].text = enc[k].text /\ enc[j].password = enc[k].password

WithoutLeadingBOM(text) ==
    IF text # <<>> /\ text[1] = 65279 THEN Tail(text) ELSE text

IvOfTwelveBytes ==
    LET iv == base64urlDecode(dec[1].ivString)
    IN  IF iv.threw THEN FALSE ELSE Len(iv.bytes) = IvLength

\* C18: decryptText fails, without returning plaintext, for every input
\* whose iv field does not base64url-decode to exactly 12 bytes, even when
\* ciphertext and tag are valid under the derived key for that iv.
C18_IvLengthChecked ==
    (dec # <<>> /\ ~IvOfTwelveBytes) => (dec[1].result.threw /\ dec[1].result.text = <<>>)

(* ------------------------------- C19 ----------------------------------- *)
\* the characters of base64url: A-Z a-z 0-9 - _
Base64UrlAlphabet == (65..90) \cup (97..122) \cup (48..57) \cup {45, 95}

\* the length of the unpadded base64 text of n bytes
UnpaddedLength(n) == (4 * n + 2) \div 3

\* the number of UTF-8 bytes of a well-formed text, counted over its code
\* units: a unit of a surrogate pair counts two
Utf8Length(text) ==
    LET Count(u) == IF u < 128 THEN 1 ELSE IF u < 2048 THEN 2
                    ELSE IF u >= 55296 /\ u <= 57343 THEN 2 ELSE 3
        RECURSIVE Sum(_)
        Sum(i) == IF i > Len(text) THEN 0 ELSE Count(text[i]) + Sum(i + 1)
    IN  Sum(1)

\* C19: for every plaintext of n UTF-8 bytes the cipherText field returned
\* by encryptText is the unpadded base64url encoding of exactly 16 + n + 16
\* bytes whose first 16 bytes are the salt, and the iv field is the unpadded
\* base64url encoding of exactly 12 bytes; neither contains '+', '/' or '='.
C19_EnvelopeLayout ==
    \A k \in DOMAIN enc :
        LET n == Utf8Length(enc[k].text)
            cipherText == enc[k].out.cipherText
            ivString == enc[k].out.iv
            combined == base64urlDecode(cipherText)
            iv == base64urlDecode(ivString)
        IN  /\ Len(cipherText) = UnpaddedLength(SaltLength + n + TagLength)
            /\ Len(ivString) = UnpaddedLength(IvLength)
            /\ \A i \in 1..Len(cipherText) : cipherText[i] \in Base64UrlAlphabet
            /\ \A i \in 1..Len(ivString) : ivString[i] \in Base64UrlAlphabet
            /\ ~combined.threw /\ Len(combined.bytes) = SaltLength + n + TagLength
            /\ SubSeq(combined.bytes, 1, SaltLength) = enc[k].salt
            /\ ~iv.threw /\ iv.bytes = enc[k].iv /\ Len(iv.bytes) = IvLength

\* reached: a text of a surrogate pair and a two-byte character (6 bytes),
\* whose 38 bytes need padding in base64, encrypted with a salt and an iv
\* that give '-' and '_'
C19_Witness ==
    \E k \in DOMAIN enc :
        /\ enc[k].text = <<233, 55357, 56832>>
        /\ \E i \in 1..Len(enc[k].out.cipherText) : enc[k].out.cipherText[i] = 45
        /\ \E i \in 1..Len(enc[k].out.iv) : enc[k].out.iv[i] = 95
        /\ Len(enc[k].out.cipherText) % 4 # 0

(* ------------------------------- C20 ----------------------------------- *)
\* the call of generateId drew ceil(length * 3 / 4) bytes and returned
\* `length` characters of the base64url alphabet
ReturnedIdOfLength ==
    /\ ~gen[1].threw
    /\ 4 * gen[1].drawn >= 3 * gen[1].length
    /\ 4 * (gen[1].drawn - 1) < 3 * gen[1].length
    /\ Len(gen[1].id) = gen[1].length
    /\ \A i \in 1..Len(gen[1].id) : gen[1].id[i] \in Base64UrlAlphabet

\* every id in a submit success response has 12 characters of the alphabet
SubmittedIdsOfTwelve ==
    \A p \in Reqs :
        Succeeded(p) =>
            /\ Len(resp[p].data[1].id) = 12
            /\ \A i \in 1..12 : resp[p].data[1].id[i] \in Base64UrlAlphabet

\* C20 as stated: for every requested length L >= 0, generateId(L) draws
\* ceil(L * 3 / 4) random bytes and returns a string of exactly L characters
\* of the base64url alphabet; with the default it returns 12 characters, so
\* every id in a submit success response has 12 characters.
C20_IdOfEveryLength ==
    /\ gen # <<>> => ReturnedIdOfLength
    /\ SubmittedIdsOfTwelve

\* C20 as amended: generateId(L) draws ceil(L * 3 / 4) random bytes and
\* returns exactly L characters of the base64url alphabet for every L >= 0
\* with ceil(L * 3 / 4) <= 65536, the most bytes crypto.getRandomValues
\* fills; for a larger L it throws and returns no id.  With the default it
\* returns 12 characters, so every id in a submit success response has 12.
C20_IdWithinQuota ==
    /\ gen # <<>> =>
          IF 3 * gen[1].length <= 4 * QuotaBytes
          THEN ReturnedIdOfLength
          ELSE gen[1].threw /\ gen[1].id = <<>>
    /\ SubmittedIdsOfTwelve

\* reached: generateId(10) cut the 11 characters of its 8 bytes to 10, with
\* '-' or '_' among them, and a submit answered success with its id
C20_Witness ==
    /\ gen # <<>> /\ gen[1].length = 10 /\ gen[1].drawn = 8 /\ Len(gen[1].id) = 10
    /\ \E i \in 1..10 : gen[1].id[i] \in {45, 95}
    /\ \E p \in Reqs : Succeeded(p) /\ Len(resp[p].data[1].id) = DefaultIdLength

(* ------------------------------- C26 ----------------------------------- *)
\* submit r takes the step
SubmitSteps(r) == pc'[r] # pc[r] /\ req'[r].route = "submit"

\* the step of submit r leaves every stored row as it was, changes the table
\* only when it answers success and then by the one row it bound, which was
\* not stored before, and leaves the table alone when it answers 400 or 500
SubmitAddsOneRow(r) ==
    /\ texts \subseteq texts'
    /\ texts' # texts => pc'[r] = "done" /\ resp'[r].status = OK
    /\ (pc'[r] = "done" /\ resp'[r].status = OK) =>
          /\ RowOf(r) \notin texts
          /\ texts' = texts \cup {RowOf(r)}
          /\ Cardinality(texts') = Cardinality(texts) + 1
    /\ (pc'[r] = "done" /\ resp'[r].status \in {BadRequest, ServerError}) =>
          texts' = texts
    /\ pc'[r] = "done" => resp'[r].status \in {OK, BadRequest, ServerError}

\* C26: a submit changes the store only by adding exactly one new record,
\* and only when it answers success; a submit that answers 400 or 500 leaves
\* the store unchanged, and no submit ever removes or modifies a record
\* other than the one it adds.
C26_SubmitAddsOneRecord == [][\A r \in Reqs : SubmitSteps(r) => SubmitAddsOneRow(r)]_vars

\* reached: with the record of another id stored and past its expires_at, a
\* submit answered success and its row is stored beside that record
C26_Witness ==
    \E p, q \in Reqs :
        /\ Succeeded(p) /\ Succeeded(q) /\ loc[p].id # loc[q].id
        /\ loc[p].expiresAt < loc[q].now
        /\ {RowOf(p), RowOf(q)} \subseteq texts

\* reached: a submit answered 500 on a collision while the row of the first
\* submit of the id stayed stored
C26_WitnessFailure ==
    \E p, q \in Reqs :
        /\ Succeeded(p) /\ IsSubmit(q) /\ Done(q) /\ Status(q) = ServerError
        /\ RowOf(p) \in texts /\ RowOf(q) \notin texts

(* ------------------------------- C25 ----------------------------------- *)
\* the DELETE of fetch r runs in the step
DeleteSteps(r) == pc[r] = "delete" /\ pc'[r] = "done"

\* C25: no fetch ever deletes a record that is not expired at the time of
\* the delete: under every interleaving of fetches and submits, also when a
\* fetch that read an expired record is overtaken by another fetch's delete
\* and by a submit that generates the same id again, the DELETE by id
\* removes only records whose expires_at is in the past.
C25_DeletesOnlyExpired ==
    [][\A r \in Reqs :
          DeleteSteps(r) =>
              \A x \in texts \ texts' : x.expires_at < FloorSeconds(clock)]_vars

(* ------------------------------- C22 ----------------------------------- *)
\* the SELECT of fetch r runs in the step
SelectSteps(r) == pc[r] = "select" /\ pc'[r] # "select"

\* a fetch that answers 200 in the step leaves the table as it was
OkFetchLeavesStore(r) ==
    (pc'[r] = "done" /\ resp'[r].status = OK) => texts' = texts

\* the record of submit p is live: p answered success and the clock has not
\* reached its expires_at
Live(p) == Succeeded(p) /\ FloorSeconds(clock) < loc[p].expiresAt

\* what every fetch of the record of p returns
DataOf(p) ==
    [id |-> loc[p].id, cipher_text |-> req[p].body.cipherText[1],
     iv |-> req[p].body.iv[1], expiresAt |-> loc[p].expiresAt]

\* a fetch of the id of a live record answers 200 with the data of the record
LiveFetchReturnsRecord(r) ==
    \A p \in Reqs :
        (Live(p) /\ loc[p].id = loc[r].id) =>
            pc'[r] = "done" /\ resp'[r] = SuccessResponse(DataOf(p))

\* C22: a fetch that answers 200 for a live record leaves the store
\* unchanged, so any two fetches of the same id made before its expiry, in
\* any order or interleaving, return identical id, cipher_text, iv and
\* expiresAt: each of them returns the data of the record.
C22_LiveFetchesAgree ==
    [][\A r \in Reqs :
          SelectSteps(r) => OkFetchLeavesStore(r) /\ LiveFetchReturnsRecord(r)]_vars

(* ------------------------------- C21 ----------------------------------- *)
\* the POST of Home carries ttl, cipherText and iv, as encryptText returned
\* them, and nothing else
HomeSendsEnvelope ==
    home # <<>> =>
        LET r == home[1].request
        IN  /\ req[r].route = "submit"
            /\ req[r].id = <<>>
            /\ DOMAIN req[r].body = {"ttl", "cipherText", "iv"}
            /\ req[r].body.ttl = <<home[1].ttl>>
            /\ req[r].body.cipherText = <<home[1].encrypted.cipherText>>
            /\ req[r].body.iv = <<home[1].encrypted.iv>>

\* the GET of ViewNote carries the id part of the idKey, without '~' and
\* what follows it, and no body
ViewSendsId ==
    (view # <<>> /\ view[1].request # 0) =>
        LET r == view[1].request
        IN  /\ req[r].route = "fetch"
            /\ req[r].body = NoBody
            /\ \A i \in 1..Len(req[r].id) : req[r].id[i] # Tilde
            /\ view[1].idKey = req[r].id \o <<Tilde>> \o view[1].key

\* the store and the responses are made of the requests: every row is the
\* row some submit bound from its body, every response with data repeats the
\* id and expiry of a submit or the columns of a row some submit bound
WorkerHoldsRequests ==
    /\ \A x \in texts : \E p \in Reqs : Validated(p) /\ x = RowOf(p)
    /\ \A r \in Reqs :
          resp[r].data # <<>> =>
              IF IsSubmit(r)
              THEN resp[r].data[1] =
                       [id |-> loc[r].id, url |-> loc[r].id, expiresAt |-> loc[r].expiresAt]
              ELSE \E p \in Reqs : Validated(p) /\ resp[r].data[1] = DataOf(p)

C23_SharePathRecovered ==
    (/\ home # <<>> /\ home[1].showResult
     /\ view # <<>> /\ view[1].url = home[1].shareUrl) =>
        /\ view[1].id = resp[home[1].request].data[1].id
        /\ view[1].key = home[1].encryptionPassword
        /\ view[1].request # 0
        /\ req[view[1].request].id = resp[home[1].request].data[1].id
        /\ \A k \in DOMAIN view[1].decrypted :
              view[1].decrypted[k].password = home[1].encryptionPassword

(* ------------------------------- C24 ----------------------------------- *)
\* C24: in the recipient view, every way decryptText can fail (undecodable
\* base64url, too-short envelope, tag mismatch from a wrong password or
\* tampering) leads to the same user-visible error message and to no
\* decrypted content being shown; the failure kinds are not distinguishable
\* by the user, and decryption is not retried.
C24_DecryptFailuresAlike ==
    view # <<>> =>
        /\ Len(view[1].decrypted) <= 1
        /\ \A k \in DOMAIN view[1].decrypted :
              view[1].decrypted[k].result.threw =>
                  /\ ~view[1].isLoading
                  /\ view[1].decryptedContent = <<>>
                  /\ Shown = [box |-> "error",
                              text |-> "Failed to decrypt note. The key might be incorrect."]

\* the call of decryptText in ViewNote failed
DecryptFailed == view # <<>> /\ view[1].decrypted # <<>> /\ view[1].decrypted[1].result.threw

\* reached: decryptText failed on the tag, for the envelope of Home under
\* another password than the key of the URL
C24_Witness ==
    /\ DecryptFailed
    /\ home # <<>> /\ view[1].decrypted[1].cipherText = home[1].encrypted.cipherText
    /\ view[1].key # home[1].encryptionPassword
    /\ Shown.box = "error"

\* reached: decryptText failed on the tag of the tampered envelope
C24_WitnessTampered ==
    DecryptFailed /\ view[1].decrypted[1].cipherText = Tampered /\ view[1].key = <<112, 113>>

\* reached: decryptText failed on an envelope shorter than a salt
C24_WitnessShort ==
    DecryptFailed /\ Len(base64urlDecode(view[1].decrypted[1].cipherText).bytes) < SaltLength

\* reached: decryptText failed on a field that is no base64url text
C24_WitnessUndecodable ==
    DecryptFailed /\ base64urlDecode(view[1].decrypted[1].cipherText).threw

====
